---- MODULE Spec2Model ----
(***************************************************************************)
(* The access-control dashboard front end: the axios data gateway          *)
(* (api/index.js), the five fetching views (Dashboard, CameraHealth,       *)
(* AccessLogs, Employees, LiveFeed) and the LogTable pagination.           *)
(*                                                                         *)
(* JavaScript values are encoded as follows.  A scalar is a string:        *)
(* numbers are written in decimal ("0", "30", "0.95"), undefined is        *)
(* "undefined", null is "null".  A raw record (one camera, log, employee)  *)
(* is a function from the names of the keys it has to scalars; a key that  *)
(* is absent is simply not in its DOMAIN.  A response body is a record     *)
(* tagged by kind: "null", "string", "array" (vals) or "object" (props).   *)
(***************************************************************************)
EXTENDS Integers, Sequences, FiniteSets, TLC

\* ------------------------------------------------------------------ values

Undefined == "undefined"
Null == "null"
Now == "now"

\* the values JavaScript treats as false in a || b
Falsy == {Undefined, Null, "", "0", "false", "NaN"}

Truthy(v) == v \notin Falsy

\* a || b
Or(a, b) == IF Truthy(a) THEN a ELSE b

\* o.k for a raw record o
Get(o, k) == IF k \in DOMAIN o THEN o[k] ELSE Undefined

\* { ...o, <over> }
Spread(o, over) == over @@ o

Arr(s) == [kind |-> "array", vals |-> s]

MapOf(ks, vs) == [kind |-> "map", keys |-> ks, vals |-> vs]

Obj(p) == [kind |-> "object", props |-> p]

NullBody == [kind |-> "null"]

StringBody == [kind |-> "string"]

\* Array.isArray(v)
IsArray(v) == v.kind = "array"

\* v.<name> is truthy, for a body v (a property of a string or an array is undefined)
HasProp(v, name) == v.kind = "object" /\ name \in DOMAIN v.props

Fulfilled(v) == [state |-> "fulfilled", value |-> v]

Rejected(c) == [state |-> "rejected", reason |-> c]

\* ------------------------------------------------------------------ utils

CameraNames == [camera_1 |-> "Camera 1", camera_2 |-> "Camera 2",
                camera_3 |-> "Camera 3", camera_9 |-> "Camera 9"]

\* utils/index.js formatCameraName, on the camera ids of the model
formatCameraName(cameraId) ==
    IF ~Truthy(cameraId) THEN "Unknown Camera" ELSE CameraNames[cameraId]

locations == [camera_1 |-> "Main Entrance", camera_2 |-> "Office Floor",
              camera_3 |-> "Parking Lot", camera_4 |-> "Server Room"]

\* utils/index.js getCameraLocation
getCameraLocation(cameraId) ==
    IF cameraId \in DOMAIN locations THEN locations[cameraId] ELSE "Unknown Location"

\* ---------------------------------------------------------------- gateway

\* what the HTTP transport does with one request
TransportFailures == {"timeout", "network", "http_500"}

Ok(body) == [ok |-> TRUE, data |-> body]

Fail(c) == [ok |-> FALSE, cause |-> c]

\* api.interceptors.response with the error handler swallowing the failure
\* into a tagged error value
responseInterceptorTagged(outcome) ==
    IF outcome.ok THEN Fulfilled(outcome.data)
    ELSE Fulfilled([kind |-> "error", cause |-> outcome.cause])

\* api.interceptors.response: response => response.data, error => Promise.reject(error)
responseInterceptor(outcome) ==
    IF outcome.ok THEN Fulfilled(outcome.data) ELSE Rejected(outcome.cause)

\* api.get(url), settled
apiGet(outcome) == responseInterceptor(outcome)

\* the camera => ({...}) callback of getCameras
normalizeCamera(camera) ==
    Spread(camera,
      [personCount |-> Or(Or(Get(camera, "person_count"), Get(camera, "personCount")), "0"),
       lastFrame   |-> Or(Get(camera, "last_frame_time"), Get(camera, "lastFrame")),
       status      |-> Or(Get(camera, "status"), "unknown"),
       fps         |-> Or(Get(camera, "fps"), "0"),
       name        |-> Or(Get(camera, "name"), formatCameraName(Get(camera, "id"))),
       location    |-> Or(Get(camera, "location"), getCameraLocation(Get(camera, "id")))])

\* Object.values(response.cameras).map(camera => ...)
mapCameras(s) == [i \in DOMAIN s |-> normalizeCamera(s[i])]

\* Object.values(v) of a map or an array
ObjectValues(v) == v.vals

\* getCameras on a response body that arrived
getCamerasBody(response) ==
    IF response.kind = "null" THEN Rejected("TypeError")
    ELSE IF HasProp(response, "cameras") /\ response.props.cameras.kind \in {"map", "array"}
    THEN Fulfilled(Obj(Spread(response.props,
           [cameras |-> Arr(mapCameras(ObjectValues(response.props.cameras)))])))
    ELSE Fulfilled(response)

\* export const getCameras = async () => ...
getCameras(outcome) ==
    LET r == apiGet(outcome)
    IN  IF r.state = "rejected" THEN r ELSE getCamerasBody(r.value)

\* export const getSystemStats = () => api.get('/system/stats')
getSystemStats(outcome) == apiGet(outcome)

\* the log => ({...}) callback of getAccessLogs
normalizeLog(log) ==
    Spread(log,
      [log_id           |-> Or(Get(log, "id"), Get(log, "log_id")),
       access_result    |-> Or(Get(log, "access_type"), Get(log, "access_result")),
       confidence_score |-> Or(Get(log, "confidence"), Get(log, "confidence_score")),
       timestamp        |-> Or(Get(log, "timestamp"), Now),
       camera_id        |-> Or(Get(log, "camera_id"), "unknown"),
       person_id        |-> Or(Get(log, "person_id"), "unknown"),
       access_type      |-> Or(Get(log, "access_type"), "unknown")])

\* response.logs.map(log => ...)
mapLogs(s) == [i \in DOMAIN s |-> normalizeLog(s[i])]

\* getAccessLogs on a response body that arrived
getAccessLogsBody(response) ==
    IF response.kind = "null" THEN Rejected("TypeError")
    ELSE IF HasProp(response, "logs") /\ IsArray(response.props.logs)
    THEN Fulfilled(Arr(mapLogs(response.props.logs.vals)))
    ELSE IF IsArray(response) THEN Fulfilled(response)
    ELSE Fulfilled(Arr(<<>>))

\* export const getAccessLogs = async (params = {}) => ...
getAccessLogs(outcome) ==
    LET r == apiGet(outcome)
    IN  IF r.state = "rejected" THEN r ELSE getAccessLogsBody(r.value)

\* the employee => ({...}) callback of getEmployees
normalizeEmployee(employee) ==
    Spread(employee,
      [employee_id     |-> Or(Get(employee, "id"), Get(employee, "employee_id")),
       name            |-> Or(Get(employee, "name"), "Unknown"),
       email           |-> Or(Get(employee, "email"), ""),
       department      |-> Or(Get(employee, "department"), ""),
       position        |-> Or(Get(employee, "position"), ""),
       face_image      |-> Or(Or(Get(employee, "face_snapshot"), Get(employee, "face_image")), ""),
       registered_date |-> Or(Get(employee, "registered_date"), Now),
       status          |-> Or(Get(employee, "status"), "active")])

\* response.employees.map(employee => ...)
mapEmployees(s) == [i \in DOMAIN s |-> normalizeEmployee(s[i])]

\* getEmployees on a response body that arrived
getEmployeesBody(response) ==
    IF response.kind = "null" THEN Rejected("TypeError")
    ELSE IF HasProp(response, "employees") /\ IsArray(response.props.employees)
    THEN Fulfilled(Arr(mapEmployees(response.props.employees.vals)))
    ELSE IF IsArray(response) THEN Fulfilled(response)
    ELSE Fulfilled(Arr(<<>>))

\* export const getEmployees = async () => ...
getEmployees(outcome) ==
    LET r == apiGet(outcome)
    IN  IF r.state = "rejected" THEN r ELSE getEmployeesBody(r.value)

\* ------------------------------------------------------------ constants

\* axios.create({ timeout: 10000 })
TimeoutMs == 10000

\* setInterval(fetchData, 30000), setInterval(fetchCameras, 30000)
IntervalMs == 30000

\* the refresh interval, counted in request timeouts
IntervalUnits == IntervalMs \div TimeoutMs

\* const itemsPerPage = 10
itemsPerPage == 10

\* fetches one view instance issues in a run of the model
MaxFetches == 3

\* create/update/delete requests of the Employees view outstanding at once
MaxMutations == 1

\* firings of the LiveFeed log simulator's interval in a run of the model
MaxLogTicks == 8

\* how often a field mapping is applied to one record
MaxPasses == 2

\* the longest wait a function is debounced with, in clock ticks
MaxWait == 2

\* calls of a debounced function in a run of the model
MaxCalls == 3

\* clock ticks in a run of the debounce model
MaxTime == 6

\* ----------------------------------------------------------------- inputs

Views == {"Dashboard", "CameraHealth", "AccessLogs", "Employees", "LiveFeed"}

PolledViews == {"Dashboard", "CameraHealth"}

CameraViews == {"Dashboard", "CameraHealth", "LiveFeed"}

\* raw camera records a backend sends
rawCam1 == [id |-> "camera_1", status |-> "online", person_count |-> "2", fps |-> "30"]

rawCam2 == [id |-> "camera_2", status |-> "ONLINE", name |-> "Lobby", last_frame_time |-> "t1"]

\* records of a map keyed by camera id, which do not repeat the id
rawKeyed1 == [status |-> "online", fps |-> "25"]

rawKeyed2 == [status |-> "offline"]

CameraMapBody == Obj([cameras |-> MapOf(<<"camera_1", "camera_2">>, <<rawKeyed1, rawKeyed2>>)])

CameraBodies ==
    { Arr(<<rawCam1, rawCam2>>),
      CameraMapBody,
      Obj([cameras |-> Arr(<<rawCam1>>)]),
      Obj([message |-> StringBody]),
      NullBody }

StatsBodies ==
    { Obj([total_people_detected |-> "7", active_cameras |-> "1", total_cameras |-> "2"]),
      Obj([total_people_detected |-> "9", active_cameras |-> "2", total_cameras |-> "2"]) }

\* the access result of the i-th entry of a backend log list: 15 granted, then
\* 7 denied, then 3 tailgating, then granted again
ResultOf(i) ==
    IF i <= 15 THEN "granted" ELSE IF i <= 22 THEN "denied"
    ELSE IF i <= 25 THEN "tailgating" ELSE "granted"

LogEntry(i) ==
    [log_id |-> ToString(i), timestamp |-> "t" \o ToString(i),
     camera_id |-> IF i % 2 = 0 THEN "camera_2" ELSE "camera_1",
     person_id |-> IF i % 3 = 0 THEN "unknown" ELSE "EMP001",
     access_type |-> "face_recognition", access_result |-> ResultOf(i),
     confidence_score |-> "0.9"]

\* the first n entries of the backend's log list
Logs(n) == [i \in 1..n |-> LogEntry(i)]

rawLog1 == [id |-> "7", access_type |-> "card_swipe", access_result |-> "granted",
            confidence |-> "0.8", camera_id |-> "camera_1"]

rawLog2 == [log_id |-> "8", access_result |-> "denied", person_id |-> "EMP002"]

LogBodies ==
    { Arr(Logs(0)), Arr(Logs(4)), Arr(Logs(12)), Arr(Logs(25)),
      Obj([logs |-> Arr(<<rawLog1, rawLog2>>)]),
      NullBody }

rawEmp1 == [id |-> "3", name |-> "Ann Lee", email |-> "ann@company.com",
            face_snapshot |-> "/faces/3"]

rawEmp2 == [employee_id |-> "EMP009", department |-> "Sales"]

EmployeeBodies ==
    { Arr(<<rawEmp1>>),
      Obj([employees |-> Arr(<<rawEmp1, rawEmp2>>)]),
      Obj([message |-> StringBody]),
      NullBody }

\* what the transport may do with a request whose bodies are drawn from B
Outcomes(B) == {Ok(b) : b \in B} \cup {Fail(c) : c \in TransportFailures}

\* ------------------------------------------------------- degraded datasets

\* Dashboard fetchData catch: setSystemStats({...})
mockStats ==
    Obj([total_people_detected |-> "42", total_access_granted |-> "156",
         total_access_denied |-> "8", total_tailgating_incidents |-> "3",
         active_cameras |-> "2", total_cameras |-> "4",
         system_uptime |-> "2 days, 14 hours", last_update |-> Now])

\* Dashboard fetchData catch: setCameras([...])
mockDashboardCameras ==
    << [id |-> "camera_1", name |-> "Main Entrance", status |-> "online",
        personCount |-> "2", fps |-> "30", lastFrame |-> Now],
       [id |-> "camera_2", name |-> "Office Floor", status |-> "online",
        personCount |-> "1", fps |-> "28", lastFrame |-> Now],
       [id |-> "camera_3", name |-> "Parking Lot", status |-> "offline",
        personCount |-> "0", fps |-> "0", error |-> "Connection lost"],
       [id |-> "camera_4", name |-> "Server Room", status |-> "error",
        personCount |-> "0", fps |-> "0", error |-> "Hardware malfunction"] >>

\* CameraHealth fetchCameras catch: setCameras([...])
mockHealthCameras ==
    << [id |-> "camera_1", name |-> "Main Entrance", status |-> "online",
        location |-> "Main Entrance", fps |-> "30", resolution |-> "1920x1080",
        lastFrame |-> Now, uptime |-> "2 days, 14 hours", error |-> Null, alerts |-> "[]"],
       [id |-> "camera_2", name |-> "Office Floor", status |-> "online",
        location |-> "Office Floor", fps |-> "28", resolution |-> "1920x1080",
        lastFrame |-> Now, uptime |-> "1 day, 8 hours", error |-> Null, alerts |-> "[]"],
       [id |-> "camera_3", name |-> "Parking Lot", status |-> "offline",
        location |-> "Parking Lot", fps |-> "0", resolution |-> "1920x1080",
        lastFrame |-> Now, uptime |-> "0 days, 0 hours",
        error |-> "Connection lost - Network timeout", alerts |-> "[2]"],
       [id |-> "camera_4", name |-> "Server Room", status |-> "error",
        location |-> "Server Room", fps |-> "0", resolution |-> "1920x1080",
        lastFrame |-> Now, uptime |-> "0 days, 0 hours",
        error |-> "Hardware malfunction - Sensor failure", alerts |-> "[3]"] >>

\* AccessLogs fetchLogs catch: setLogs([...])
mockLogs ==
    << [log_id |-> "1", timestamp |-> Now, camera_id |-> "camera_1", person_id |-> "EMP001",
        access_type |-> "face_recognition", access_result |-> "granted",
        confidence_score |-> "0.95"],
       [log_id |-> "2", timestamp |-> Now, camera_id |-> "camera_2", person_id |-> "unknown",
        access_type |-> "body_recognition", access_result |-> "denied",
        confidence_score |-> "0.45"],
       [log_id |-> "3", timestamp |-> Now, camera_id |-> "camera_1", person_id |-> "EMP002",
        access_type |-> "face_recognition", access_result |-> "tailgating",
        confidence_score |-> "0.88"],
       [log_id |-> "4", timestamp |-> Now, camera_id |-> "camera_3", person_id |-> "EMP003",
        access_type |-> "card_swipe", access_result |-> "granted",
        confidence_score |-> "1.0"],
       [log_id |-> "5", timestamp |-> Now, camera_id |-> "camera_1", person_id |-> "EMP001",
        access_type |-> "face_recognition", access_result |-> "granted",
        confidence_score |-> "0.92"] >>

\* Employees fetchEmployees catch: setEmployees([...])
mockEmployees ==
    << [id |-> "1", name |-> "John Doe", employee_id |-> "EMP001",
        email |-> "john.doe@company.com", phone |-> "+1-555-0123",
        department |-> "Engineering", face_image |-> "/api/employees/1/face",
        registered_date |-> "2024-01-15", status |-> "active"],
       [id |-> "2", name |-> "Jane Smith", employee_id |-> "EMP002",
        email |-> "jane.smith@company.com", phone |-> "+1-555-0124",
        department |-> "Marketing", face_image |-> "/api/employees/2/face",
        registered_date |-> "2024-01-20", status |-> "active"] >>

\* LiveFeed fetchCameras catch: const mockCameras = [...]
mockCameras ==
    << [id |-> "camera_1", name |-> "Main Entrance", status |-> "online",
        location |-> "Main Entrance"],
       [id |-> "camera_2", name |-> "Office Floor", status |-> "online",
        location |-> "Office Floor"] >>

\* LiveFeed: const mockLogs = [...] of the log simulator; an entry is modelled
\* by its id, the other fields (timestamp, message, type, personId) are only rendered
mockLiveLogs == << [id |-> 1], [id |-> 2], [id |-> 3] >>

\* the dataset a view installs in its catch block
MockOf(v) ==
    CASE v = "Dashboard" -> mockDashboardCameras
      [] v = "CameraHealth" -> mockHealthCameras
      [] v = "AccessLogs" -> mockLogs
      [] v = "Employees" -> mockEmployees
      [] v = "LiveFeed" -> mockCameras

\* the message a view's catch block passes to setError
ErrorOf(v) ==
    CASE v = "Dashboard" -> "Failed to load dashboard data"
      [] v = "CameraHealth" -> "Failed to load camera data"
      [] v = "AccessLogs" -> "Failed to load access logs"
      [] v = "Employees" -> "Failed to load employees"
      [] v = "LiveFeed" -> "Failed to load cameras"

\* ------------------------------------------------------------------ state

VARIABLES
    view,            \* which page component this instance is
    life,            \* "created" (rendered, effects not yet run), "mounted", "unmounted"
    cameraId,        \* LiveFeed: searchParams.get('camera') || 'camera_1'
    timer,           \* the setInterval of a polled view is armed
    phase,           \* request timeouts elapsed since the interval was armed or last fired
    inflight,        \* the fetches of this instance whose await has not resumed
    issued,          \* how many fetches this instance has started
    mutations,       \* Employees: create/update/delete requests not yet settled
    collection,      \* cameras (Dashboard, CameraHealth, LiveFeed), logs, employees
    systemStats,     \* Dashboard
    selectedCamera,  \* LiveFeed
    loading,
    error,
    filters,         \* AccessLogs: the filters sent as query parameters
    tableFilters,    \* LogTable: filters
    currentPage,     \* LogTable
    lastApplied,     \* history: the fetch whose continuation last wrote the view state
    lastCall,        \* history: the last gateway call settled, [outcome, promise]
    last,            \* history: the last handler run and the page shown before it
    logs,            \* LiveFeed: the simulated real-time log list, newest first
    logTimer,        \* LiveFeed: the setInterval of the log simulator is armed
    entity,          \* field mapping: which map callback is applied ("none" in a view)
    raw,             \* field mapping: the raw record the backend sent
    rec,             \* field mapping: the record the callback returned last
    passes,          \* field mapping: how often the callback has been applied
    download,        \* AccessLogs: the CSV content handleExport last offered for download
    wait,            \* debounce: the wait the function was wrapped with, in clock ticks
    now,             \* debounce: the clock
    timers,          \* debounce: the timers set with setTimeout that are still pending
    timeout,         \* debounce: the closure variable timeout (a timer id, 0 while undefined)
    calls,           \* debounce, history: the calls of executedFunction, [at, args]
    invoked          \* debounce, history: the invocations of func, [at, args]

vars == <<view, life, cameraId, timer, phase, inflight, issued, mutations, collection,
          systemStats, selectedCamera, loading, error, filters, tableFilters,
          currentPage, lastApplied, lastCall, last, logs, logTimer,
          entity, raw, rec, passes, download, wait, now, timers, timeout, calls, invoked>>

viewState == <<collection, systemStats, selectedCamera, loading, error>>

tableState == <<filters, tableFilters, currentPage>>

liveLogs == <<logs, logTimer>>

mapping == <<entity, raw, rec, passes>>

\* a record that does not exist (yet)
NoRecord == [k \in {} |-> ""]

debouncing == <<wait, now, timers, timeout, calls, invoked>>

\* no function is wrapped by debounce
DebounceIdle ==
    /\ wait = 0 /\ now = 0 /\ timers = {} /\ timeout = 0
    /\ calls = <<>> /\ invoked = <<>>

\* no field mapping is under way
MappingIdle == entity = "none" /\ raw = NoRecord /\ rec = NoRecord /\ passes = 0

Pending == [state |-> "pending"]

NoCamera(k) == [kind |-> k]

FilterKeys == {"search", "dateFrom", "dateTo", "employeeId", "cameraId", "status"}

\* what the user can put into each control of the filter bar
FilterValues ==
    [search |-> {"", "EMP001"}, dateFrom |-> {"", "2024-01-01"},
     dateTo |-> {"", "2099-12-31"}, employeeId |-> {"", "EMP001"},
     cameraId |-> {"", "camera_1"}, status |-> {"", "granted"}]

\* LogTable useState({search: '', dateFrom: '', ...}) and clearFilters' clearedFilters
clearedFilters == [k \in FilterKeys |-> ""]

\* a fetch started now: its id, how many more clock steps it can stay outstanding
\* before the axios timeout settles it, and the two promises Dashboard awaits
NewFetch(ttl) ==
    [id |-> issued + 1, ttl |-> ttl, statsData |-> Pending, camerasData |-> Pending]

Event(op) == [op |-> op, page |-> currentPage]

Init ==
    /\ view \in Views
    /\ life = "created"
    /\ cameraId \in (IF view = "LiveFeed" THEN {"camera_1", "camera_2"} ELSE {"camera_1"})
    /\ timer = FALSE
    /\ phase = 0
    /\ inflight = {}
    /\ issued = 0
    /\ mutations = 0
    /\ collection = <<>>
    /\ systemStats = NullBody
    /\ selectedCamera = NoCamera("null")
    /\ loading = TRUE
    /\ error = Null
    /\ filters = [k \in {} |-> ""]
    /\ tableFilters = clearedFilters
    /\ currentPage = 1
    /\ lastApplied = 0
    /\ lastCall = [outcome |-> Ok([kind |-> "none"]), promise |-> [state |-> "none"]]
    /\ last = [op |-> "render", page |-> 1]
    /\ logs = <<>>
    /\ logTimer = FALSE
    /\ download = <<>>
    /\ DebounceIdle
    /\ MappingIdle

\* ------------------------------------------------------- fetch lifecycle

\* the part of fetchData / fetchCameras / fetchLogs / fetchEmployees that runs
\* before the await: setLoading(true) (LiveFeed's fetchCameras has none) and the request
StartFetch(ttl) ==
    /\ issued < MaxFetches
    /\ inflight' = inflight \cup {NewFetch(ttl)}
    /\ issued' = issued + 1
    /\ loading' = IF view = "LiveFeed" THEN loading ELSE TRUE

\* useEffect(() => { fetch...(); setInterval(...) }, ...) on mount
Mount ==
    /\ life = "created"
    /\ life' = "mounted"
    /\ StartFetch(0)
    /\ timer' = (view \in PolledViews)
    /\ phase' = 0
    /\ logs' = IF view = "LiveFeed" THEN mockLiveLogs ELSE logs
    /\ logTimer' = (view = "LiveFeed")
    /\ last' = Event("mount")
    /\ UNCHANGED <<debouncing, download, mapping, view, cameraId, mutations, collection, systemStats, selectedCamera,
                   error, tableState, lastApplied, lastCall>>

\* an unmount whose cleanup leaves the intervals armed
UnmountKeepTimers ==
    /\ life = "mounted"
    /\ life' = "unmounted"
    /\ timer' = timer
    /\ logTimer' = logTimer
    /\ last' = Event("unmount")
    /\ UNCHANGED <<debouncing, download, mapping, logs, view, cameraId, phase, inflight, issued, mutations, viewState,
                   tableState, lastApplied, lastCall>>

\* the effect cleanup: return () => clearInterval(interval)
Unmount ==
    /\ life = "mounted"
    /\ life' = "unmounted"
    /\ timer' = FALSE
    /\ logTimer' = FALSE
    /\ last' = Event("unmount")
    /\ UNCHANGED <<debouncing, download, mapping, logs, view, cameraId, phase, inflight, issued, mutations, viewState,
                   tableState, lastApplied, lastCall>>

\* one request timeout (10 s) passes; a request outstanding for a whole timeout
\* has been settled by axios before that
AdvanceTime ==
    /\ timer
    /\ phase < IntervalUnits
    /\ \A f \in inflight : f.ttl > 0
    /\ phase' = phase + 1
    /\ inflight' = {[f EXCEPT !.ttl = @ - 1] : f \in inflight}
    /\ UNCHANGED <<debouncing, download, mapping, liveLogs, view, life, cameraId, timer, issued, mutations, viewState, tableState,
                   lastApplied, lastCall, last>>

\* the setInterval callback of Dashboard and CameraHealth
IntervalTick ==
    /\ timer
    /\ phase = IntervalUnits
    /\ phase' = 0
    /\ StartFetch(0)
    /\ last' = Event("tick")
    /\ UNCHANGED <<debouncing, download, mapping, liveLogs, view, life, cameraId, timer, mutations, collection, systemStats,
                   selectedCamera, error, tableState, lastApplied, lastCall>>

\* a click during the current clock step starts a fetch that can outlive the step
ClickTtl == IF timer THEN 1 ELSE 0

\* CameraHealth: the Refresh button of a camera card, onClick={fetchCameras};
\* AccessLogs: handleRefresh
ManualRefresh ==
    /\ life = "mounted"
    /\ \/ view = "CameraHealth" /\ ~loading /\ Len(collection) > 0
       \/ view = "AccessLogs"
    /\ StartFetch(ClickTtl)
    /\ last' = Event("refresh")
    /\ UNCHANGED <<debouncing, download, mapping, liveLogs, view, life, cameraId, timer, phase, mutations, collection, systemStats,
                   selectedCamera, error, tableState, lastApplied, lastCall>>

\* ------------------------------------------------------- continuations

\* Array.isArray(camerasData?.cameras) ? camerasData.cameras
\*   : Array.isArray(camerasData) ? camerasData : []
cameraList(camerasData) ==
    IF HasProp(camerasData, "cameras") /\ IsArray(camerasData.props.cameras)
    THEN camerasData.props.cameras.vals
    ELSE IF IsArray(camerasData) THEN camerasData.vals
    ELSE <<>>

\* Array.isArray(data) ? data : []
logList(data) == IF IsArray(data) THEN data.vals ELSE <<>>

\* cams.find(c => c.id === cameraId) || cams[0]
findCamera(cams) ==
    LET hits == {i \in 1..Len(cams) : Get(cams[i], "id") = cameraId}
    IN  IF hits # {}
        THEN [kind |-> "camera", rec |-> cams[CHOOSE i \in hits : \A j \in hits : i <= j]]
        ELSE IF Len(cams) > 0 THEN [kind |-> "camera", rec |-> cams[1]]
        ELSE NoCamera("undefined")

\* a catch block that reports the error and clears the collection
DegradeBlank(v) ==
    /\ error' = ErrorOf(v)
    /\ collection' = <<>>
    /\ systemStats' = systemStats
    /\ selectedCamera' = selectedCamera
    /\ loading' = FALSE

\* a catch block that replaces the collection and keeps the statistics
DegradeCamerasOnly(v) ==
    /\ error' = ErrorOf(v)
    /\ collection' = MockOf(v)
    /\ systemStats' = systemStats
    /\ selectedCamera' = IF v = "LiveFeed" THEN findCamera(mockCameras) ELSE selectedCamera
    /\ loading' = FALSE

\* the catch and finally blocks of view v's fetch: setError(...), the mock
\* dataset, setLoading(false)
Degrade(v) ==
    /\ error' = ErrorOf(v)
    /\ collection' = MockOf(v)
    /\ systemStats' = IF v = "Dashboard" THEN mockStats ELSE systemStats
    /\ selectedCamera' = IF v = "LiveFeed" THEN findCamera(mockCameras) ELSE selectedCamera
    /\ loading' = FALSE

\* the try and finally blocks of Dashboard's fetchData after Promise.all resolved
DashboardApply(statsData, camerasData) ==
    /\ systemStats' = statsData
    /\ collection' = cameraList(camerasData)
    /\ error' = Null
    /\ loading' = FALSE
    /\ UNCHANGED selectedCamera

\* the try and finally blocks of the other views' fetches after the await
\* resumed with data; LiveFeed's camerasData.find throws on a non-array, which
\* lands in its catch block
Apply(v, data) ==
    CASE v = "CameraHealth" ->
            /\ collection' = cameraList(data)
            /\ error' = Null
            /\ loading' = FALSE
            /\ UNCHANGED <<systemStats, selectedCamera>>
      [] v = "AccessLogs" ->
            /\ collection' = logList(data)
            /\ error' = Null
            /\ loading' = FALSE
            /\ UNCHANGED <<systemStats, selectedCamera>>
      [] v = "Employees" ->
            /\ collection' = data.vals
            /\ error' = Null
            /\ loading' = FALSE
            /\ UNCHANGED <<systemStats, selectedCamera>>
      [] v = "LiveFeed" ->
            IF IsArray(data)
            THEN /\ collection' = data.vals
                 /\ selectedCamera' = findCamera(data.vals)
                 /\ error' = Null
                 /\ loading' = FALSE
                 /\ UNCHANGED systemStats
            ELSE Degrade(v)

\* the gateway function view v awaits
Gateway(v, outcome) ==
    CASE v \in {"CameraHealth", "LiveFeed"} -> getCameras(outcome)
      [] v = "AccessLogs" -> getAccessLogs(outcome)
      [] v = "Employees" -> getEmployees(outcome)

BodiesOf(v) ==
    CASE v \in CameraViews -> CameraBodies
      [] v = "AccessLogs" -> LogBodies
      [] v = "Employees" -> EmployeeBodies

\* a continuation that requests again when the request failed
FetchSettledRetry(f, outcome) ==
    /\ view # "Dashboard"
    /\ f \in inflight
    /\ LET p == Gateway(view, outcome)
           again == p.state = "rejected" /\ issued < MaxFetches
       IN  /\ lastCall' = [outcome |-> outcome, promise |-> p]
           /\ IF p.state = "fulfilled" THEN Apply(view, p.value) ELSE Degrade(view)
           /\ inflight' = (inflight \ {f}) \cup (IF again THEN {NewFetch(0)} ELSE {})
           /\ issued' = IF again THEN issued + 1 ELSE issued
    /\ lastApplied' = f.id
    /\ last' = Event("settle")
    /\ UNCHANGED <<debouncing, download, mapping, liveLogs, view, life, cameraId, timer, phase,
                   mutations, tableState>>

\* the awaited gateway promise of fetch f settles and the rest of the async
\* function runs (CameraHealth, AccessLogs, Employees, LiveFeed)
FetchSettled(f, outcome) ==
    /\ view # "Dashboard"
    /\ f \in inflight
    /\ LET p == Gateway(view, outcome)
       IN  /\ lastCall' = [outcome |-> outcome, promise |-> p]
           /\ IF p.state = "fulfilled" THEN Apply(view, p.value) ELSE Degrade(view)
    /\ inflight' = inflight \ {f}
    /\ lastApplied' = f.id
    /\ last' = Event("settle")
    /\ UNCHANGED <<debouncing, download, mapping, liveLogs, view, life, cameraId, timer, phase, issued, mutations, tableState>>

\* Dashboard: one of the two promises given to Promise.all settles.  A rejection
\* rejects the Promise.all at once; a fulfilment resumes fetchData only when the
\* other promise is fulfilled too.
DashboardSettled(f, part, outcome) ==
    /\ view = "Dashboard"
    /\ f \in inflight
    /\ f[part] = Pending
    /\ LET p == IF part = "statsData" THEN getSystemStats(outcome) ELSE getCameras(outcome)
           g == [f EXCEPT ![part] = p]
       IN  /\ lastCall' = [outcome |-> outcome, promise |-> p]
           /\ IF p.state = "rejected"
              THEN /\ Degrade(view)
                   /\ inflight' = inflight \ {f}
                   /\ lastApplied' = f.id
              ELSE IF g.statsData # Pending /\ g.camerasData # Pending
              THEN /\ DashboardApply(g.statsData.value, g.camerasData.value)
                   /\ inflight' = inflight \ {f}
                   /\ lastApplied' = f.id
              ELSE /\ inflight' = (inflight \ {f}) \cup {g}
                   /\ UNCHANGED <<viewState, lastApplied>>
    /\ last' = Event("settle")
    /\ UNCHANGED <<debouncing, download, mapping, liveLogs, view, life, cameraId, timer, phase, issued, mutations, tableState>>

\* ---------------------------------------------------------------- LogTable

Min(a, b) == IF a <= b THEN a ELSE b

Max(a, b) == IF a >= b THEN a ELSE b

\* a slice that hands back its entries last to first
sliceReversed(s, a, b) ==
    LET t == SubSeq(s, a + 1, IF b <= Len(s) THEN b ELSE Len(s))
    IN  [i \in 1..Len(t) |-> t[Len(t) + 1 - i]]

\* s.slice(a, b) for 0 <= a
slice(s, a, b) == SubSeq(s, a + 1, Min(b, Len(s)))

\* const safeLogs = Array.isArray(logs) ? logs : []
safeLogs == collection

\* Math.ceil(safeLogs.length / itemsPerPage)
totalPages == (Len(safeLogs) + itemsPerPage - 1) \div itemsPerPage

startIndex == (currentPage - 1) * itemsPerPage

\* a page that runs one entry over
endIndexInclusive == startIndex + itemsPerPage + 1

endIndex == startIndex + itemsPerPage

currentLogs == slice(safeLogs, startIndex, endIndex)

\* LogTable returns the skeleton while loading; the filter bar, the table and
\* the pagination controls are rendered otherwise
TableShown == view = "AccessLogs" /\ life = "mounted" /\ ~loading

\* a handleFilterChange that keeps the page
handleFilterChangeKeepPage(key, value) ==
    /\ TableShown
    /\ value \in FilterValues[key] \ {tableFilters[key]}
    /\ tableFilters' = [tableFilters EXCEPT ![key] = value]
    /\ currentPage' = currentPage
    /\ filters' = tableFilters'
    /\ StartFetch(ClickTtl)
    /\ last' = Event("handleFilterChange")
    /\ UNCHANGED <<debouncing, download, mapping, liveLogs, view, life, cameraId, timer, phase, mutations, collection, systemStats,
                   selectedCamera, error, lastApplied, lastCall>>

\* LogTable handleFilterChange(key, value) (handleSearch is the key 'search'):
\* setFilters, setCurrentPage(1), onFilterChange -> AccessLogs setFilters, whose
\* useEffect([filters]) calls fetchLogs
handleFilterChange(key, value) ==
    /\ TableShown
    /\ value \in FilterValues[key] \ {tableFilters[key]}
    /\ tableFilters' = [tableFilters EXCEPT ![key] = value]
    /\ currentPage' = 1
    /\ filters' = tableFilters'
    /\ StartFetch(ClickTtl)
    /\ last' = Event("handleFilterChange")
    /\ UNCHANGED <<debouncing, download, mapping, liveLogs, view, life, cameraId, timer, phase, mutations, collection, systemStats,
                   selectedCamera, error, lastApplied, lastCall>>

\* LogTable clearFilters
clearFilters ==
    /\ TableShown
    /\ tableFilters' = clearedFilters
    /\ currentPage' = 1
    /\ filters' = clearedFilters
    /\ StartFetch(ClickTtl)
    /\ last' = Event("clearFilters")
    /\ UNCHANGED <<debouncing, download, mapping, liveLogs, view, life, cameraId, timer, phase, mutations, collection, systemStats,
                   selectedCamera, error, lastApplied, lastCall>>

\* the ChevronRight button: rendered when totalPages > 1, disabled on the last page
NextPage ==
    /\ TableShown
    /\ totalPages > 1
    /\ currentPage # totalPages
    /\ currentPage' = Min(totalPages, currentPage + 1)
    /\ last' = Event("next")
    /\ UNCHANGED <<debouncing, download, mapping, liveLogs, view, life, cameraId, timer, phase, inflight, issued, mutations,
                   viewState, filters, tableFilters, lastApplied, lastCall>>

\* the ChevronLeft button: rendered when totalPages > 1, disabled on page 1
PrevPage ==
    /\ TableShown
    /\ totalPages > 1
    /\ currentPage # 1
    /\ currentPage' = Max(1, currentPage - 1)
    /\ last' = Event("previous")
    /\ UNCHANGED <<debouncing, download, mapping, liveLogs, view, life, cameraId, timer, phase, inflight, issued, mutations,
                   viewState, filters, tableFilters, lastApplied, lastCall>>

\* --------------------------------------------------------------- AccessLogs

\* const headers = [...]
headers == <<"Timestamp", "Camera", "Person ID", "Access Type", "Status", "Confidence">>

\* new Date(log.timestamp).toLocaleString()
toLocaleString(t) == IF t = Undefined THEN "Invalid Date" ELSE "local " \o t

\* `${(log.confidence_score * 100).toFixed(1)}%` on the scores of this model
percent ==
    ("0.45" :> "45.0%") @@ ("0.5" :> "50.0%") @@ ("0.8" :> "80.0%") @@ ("0.88" :> "88.0%")
    @@ ("0.9" :> "90.0%") @@ ("0.92" :> "92.0%") @@ ("0.95" :> "95.0%") @@ ("1.0" :> "100.0%")

\* the log => [...] callback of handleExport; the row is kept as its columns,
\* which join(',') writes one after the other
csvRow(log) ==
    << toLocaleString(Get(log, "timestamp")), Get(log, "camera_id"), Get(log, "person_id"),
       Get(log, "access_type"), Get(log, "access_result"),
       IF Truthy(Get(log, "confidence_score")) THEN percent[Get(log, "confidence_score")]
       ELSE "N/A" >>

\* const csvContent = [headers.join(','), ...logs.map(...)].join('\n'), as its lines
csvContent == <<headers>> \o [i \in 1..Len(collection) |-> csvRow(collection[i])]

\* the Export CSV button: handleExport (offering the same content again changes nothing)
handleExport ==
    /\ view = "AccessLogs" /\ life = "mounted"
    /\ download # csvContent
    /\ download' = csvContent
    /\ last' = Event("handleExport")
    /\ UNCHANGED <<debouncing, mapping, liveLogs, view, life, cameraId, timer, phase, inflight,
                   issued, mutations, viewState, tableState, lastApplied, lastCall>>

\* --------------------------------------------------------------- Employees

\* handleSubmit with valid form data, or handleDelete confirmed, up to its await
\* of createEmployee / updateEmployee / deleteEmployee
MutationStart ==
    /\ view = "Employees" /\ life = "mounted" /\ ~loading
    /\ mutations < MaxMutations
    /\ mutations' = mutations + 1
    /\ last' = Event("mutate")
    /\ UNCHANGED <<debouncing, download, mapping, liveLogs, view, life, cameraId, timer, phase, inflight, issued, viewState,
                   tableState, lastApplied, lastCall>>

\* handleSubmit returning early: a required field is missing, or the email is invalid
SubmitInvalid(message) ==
    /\ view = "Employees" /\ life = "mounted" /\ ~loading
    /\ error' = message
    /\ last' = Event("invalid")
    /\ UNCHANGED <<debouncing, download, mapping, liveLogs, view, life, cameraId, timer, phase, inflight, issued, mutations,
                   collection, systemStats, selectedCamera, loading, tableState,
                   lastApplied, lastCall>>

\* the rest of handleSubmit / handleDelete: fetchEmployees(); setError(null) when
\* the request succeeded, setError('Failed to ...') when it failed
MutationSettled(ok, message) ==
    /\ mutations > 0
    /\ mutations' = mutations - 1
    /\ IF ok
       THEN /\ StartFetch(0)
            /\ error' = Null
       ELSE /\ error' = message
            /\ UNCHANGED <<inflight, issued, loading>>
    /\ last' = Event("mutated")
    /\ UNCHANGED <<debouncing, download, mapping, liveLogs, view, life, cameraId, timer, phase, collection, systemStats,
                   selectedCamera, tableState, lastApplied, lastCall>>

\* ---------------------------------------------------------------- LiveFeed

\* the camera buttons: onClick={() => setSelectedCamera(camera)}
SelectCamera(i) ==
    /\ view = "LiveFeed" /\ life = "mounted" /\ ~loading
    /\ i \in 1..Len(collection)
    /\ selectedCamera' = [kind |-> "camera", rec |-> collection[i]]
    /\ last' = Event("select")
    /\ UNCHANGED <<debouncing, download, mapping, liveLogs, view, life, cameraId, timer, phase, inflight, issued, mutations,
                   collection, systemStats, loading, error, tableState, lastApplied,
                   lastCall>>

\* Date.now() of a new simulated log: later than the id of every entry so far
NextLogId == 1 + Len(mockLiveLogs) + Cardinality({i \in 1..Len(logs) : logs[i].id > Len(mockLiveLogs)})

\* a simulator callback that drops no entry
LogTickKeepAll ==
    /\ logTimer
    /\ NextLogId <= Len(mockLiveLogs) + MaxLogTicks
    /\ logs' = <<[id |-> NextLogId]>> \o logs
    /\ last' = Event("logTick")
    /\ UNCHANGED <<debouncing, download, mapping, logTimer, view, life, cameraId, timer, phase,
                   inflight, issued, mutations, viewState, tableState, lastApplied, lastCall>>

\* the setInterval callback of the log simulator:
\* setLogs(prev => [newLog, ...prev.slice(0, 9)])
LogTick ==
    /\ logTimer
    /\ NextLogId <= Len(mockLiveLogs) + MaxLogTicks
    /\ logs' = <<[id |-> NextLogId]>> \o slice(logs, 0, 9)
    /\ last' = Event("logTick")
    /\ UNCHANGED <<debouncing, download, mapping, logTimer, view, life, cameraId, timer, phase, inflight, issued,
                   mutations, viewState, tableState, lastApplied, lastCall>>

\* ------------------------------------------------------------ specification

Next ==
    \/ Mount
    \/ Unmount
    \/ AdvanceTime
    \/ IntervalTick
    \/ ManualRefresh
    \/ \E f \in inflight : \E o \in Outcomes(BodiesOf(view)) : FetchSettled(f, o)
    \/ \E f \in inflight : \E o \in Outcomes(StatsBodies) : DashboardSettled(f, "statsData", o)
    \/ \E f \in inflight : \E o \in Outcomes(CameraBodies) : DashboardSettled(f, "camerasData", o)
    \/ \E k \in FilterKeys : \E v \in FilterValues[k] : handleFilterChange(k, v)
    \/ clearFilters
    \/ NextPage
    \/ PrevPage
    \/ MutationStart
    \/ \E m \in {"Please fill in all required fields", "Please enter a valid email address"} :
          SubmitInvalid(m)
    \/ \E ok \in BOOLEAN : \E m \in {"Failed to save employee", "Failed to delete employee"} :
          MutationSettled(ok, m)
    \/ \E i \in 1..2 : SelectCamera(i)
    \/ LogTick
    \/ handleExport

Spec == Init /\ [][Next]_vars

\* ------------------------------------------------------- the field mappings

\* a key the backend left out of a raw record
Absent == "absent"

\* the record with the keys of f that are not left out
Strip(f) == [k \in {j \in DOMAIN f : f[j] # Absent} |-> f[k]]

\* raw camera records a backend can send
RawCameras ==
    { Strip(f) : f \in
        [id : {Absent, "camera_1", "camera_9"},
         status : {Absent, "online", "ONLINE", "Online", "maintenance"},
         person_count : {Absent, "0", "2", Null},
         personCount : {Absent, "5"},
         fps : {Absent, "0", "30"},
         last_frame_time : {Absent, "t1"},
         lastFrame : {Absent, "t2"},
         name : {Absent, "Lobby"}] }

\* raw access-log records a backend can send
RawLogs ==
    { Strip(f) : f \in
        [id : {Absent, "0", "7"},
         log_id : {Absent, "8"},
         access_type : {Absent, "card_swipe", "face_recognition", "rfid"},
         access_result : {Absent, "granted", "denied", "DENIED"},
         confidence : {Absent, "0", "0.8"},
         confidence_score : {Absent, "0.5"},
         timestamp : {Absent, "t1"},
         camera_id : {Absent, "camera_1"},
         person_id : {Absent, "EMP002"}] }

\* raw employee records a backend can send
RawEmployees ==
    { Strip(f) : f \in
        [id : {Absent, "0", "3"},
         employee_id : {Absent, "EMP009"},
         name : {Absent, "Ann Lee"},
         email : {Absent, "ann@company.com"},
         department : {Absent, "Sales"},
         position : {Absent, "Clerk"},
         face_snapshot : {Absent, "", "/faces/3"},
         face_image : {Absent, "/img/3"},
         registered_date : {Absent, "2024-01-15"},
         status : {Absent, "inactive"}] }

Entities == {"camera", "log", "employee"}

RawOf(e) ==
    CASE e = "camera" -> RawCameras
      [] e = "log" -> RawLogs
      [] e = "employee" -> RawEmployees

\* the callback getCameras / getAccessLogs / getEmployees passes to map
mapCallback(e, r) ==
    CASE e = "camera" -> normalizeCamera(r)
      [] e = "log" -> normalizeLog(r)
      [] e = "employee" -> normalizeEmployee(r)

\* one raw record arrives at the gateway; no view is involved
MappingInit ==
    /\ entity \in Entities
    /\ raw \in RawOf(entity)
    /\ rec = NoRecord
    /\ passes = 0
    /\ view = "none"
    /\ life = "created"
    /\ cameraId = "camera_1"
    /\ timer = FALSE
    /\ phase = 0
    /\ inflight = {}
    /\ issued = 0
    /\ mutations = 0
    /\ collection = <<>>
    /\ systemStats = NullBody
    /\ selectedCamera = NoCamera("null")
    /\ loading = TRUE
    /\ error = Null
    /\ filters = [k \in {} |-> ""]
    /\ tableFilters = clearedFilters
    /\ currentPage = 1
    /\ lastApplied = 0
    /\ lastCall = [outcome |-> Ok([kind |-> "none"]), promise |-> [state |-> "none"]]
    /\ last = [op |-> "render", page |-> 1]
    /\ logs = <<>>
    /\ logTimer = FALSE
    /\ download = <<>>
    /\ DebounceIdle

\* the gateway applies the callback to the raw record
MapRaw ==
    /\ passes = 0
    /\ rec' = mapCallback(entity, raw)
    /\ passes' = 1
    /\ UNCHANGED <<debouncing, download, entity, raw, liveLogs, view, life, cameraId, timer, phase, inflight,
                   issued, mutations, viewState, tableState, lastApplied, lastCall, last>>

\* the callback is applied to a record it produced
MapAgain ==
    /\ passes >= 1
    /\ passes < MaxPasses
    /\ rec' = mapCallback(entity, rec)
    /\ passes' = passes + 1
    /\ UNCHANGED <<debouncing, download, entity, raw, liveLogs, view, life, cameraId, timer, phase, inflight,
                   issued, mutations, viewState, tableState, lastApplied, lastCall, last>>

MappingNext == MapRaw \/ MapAgain

MappingSpec == MappingInit /\ [][MappingNext]_vars

\* ---------------------------------------------------------------- debounce

\* the arguments a debounced function is called with
Args == {"a", "b"}

\* clearTimeout(id) on the pending timers ts; an id that names no timer does nothing
clearTimeout(ts, id) == {t \in ts : t.id # id}

\* the timer setTimeout(later, wait) creates in a call with the arguments args
setTimeout(args) == [id |-> Len(calls) + 1, due |-> now + wait, args |-> args]

\* debounce(func, wait) was called: let timeout; return function executedFunction
DebounceInit ==
    /\ wait \in 1..MaxWait
    /\ now = 0
    /\ timers = {}
    /\ timeout = 0
    /\ calls = <<>>
    /\ invoked = <<>>
    /\ MappingIdle
    /\ download = <<>>
    /\ view = "none"
    /\ life = "created"
    /\ cameraId = "camera_1"
    /\ timer = FALSE
    /\ phase = 0
    /\ inflight = {}
    /\ issued = 0
    /\ mutations = 0
    /\ collection = <<>>
    /\ systemStats = NullBody
    /\ selectedCamera = NoCamera("null")
    /\ loading = TRUE
    /\ error = Null
    /\ filters = [k \in {} |-> ""]
    /\ tableFilters = clearedFilters
    /\ currentPage = 1
    /\ lastApplied = 0
    /\ lastCall = [outcome |-> Ok([kind |-> "none"]), promise |-> [state |-> "none"]]
    /\ last = [op |-> "render", page |-> 1]
    /\ logs = <<>>
    /\ logTimer = FALSE

\* everything that is not the debounce closure and its timers
component == <<view, life, cameraId, timer, phase, inflight, issued, mutations, viewState,
               tableState, lastApplied, lastCall, last, liveLogs, mapping, download>>

\* an executedFunction that sets its timer without clearing the pending one
executedFunctionKeepTimer(args) ==
    /\ Len(calls) < MaxCalls
    /\ timers' = timers \cup {setTimeout(args)}
    /\ timeout' = setTimeout(args).id
    /\ calls' = Append(calls, [at |-> now, args |-> args])
    /\ UNCHANGED <<wait, now, invoked, component>>

\* executedFunction(...args): clearTimeout(timeout); timeout = setTimeout(later, wait)
executedFunction(args) ==
    /\ Len(calls) < MaxCalls
    /\ timers' = clearTimeout(timers, timeout) \cup {setTimeout(args)}
    /\ timeout' = setTimeout(args).id
    /\ calls' = Append(calls, [at |-> now, args |-> args])
    /\ UNCHANGED <<wait, now, invoked, component>>

\* the timer t fires: later = () => { clearTimeout(timeout); func(...args) }
later(t) ==
    /\ t \in timers
    /\ t.due <= now
    /\ timers' = clearTimeout(timers \ {t}, timeout)
    /\ invoked' = Append(invoked, [at |-> now, args |-> t.args])
    /\ UNCHANGED <<wait, now, timeout, calls, component>>

\* the clock advances; a timer that is due fires before it does
ClockTick ==
    /\ now < MaxTime
    /\ \A t \in timers : t.due > now
    /\ now' = now + 1
    /\ UNCHANGED <<wait, timers, timeout, calls, invoked, component>>

DebounceNext ==
    \/ \E a \in Args : executedFunction(a)
    \/ \E t \in timers : later(t)
    \/ ClockTick

DebounceSpec == DebounceInit /\ [][DebounceNext]_vars

\* ------------------------------------------------------------------ claims

\* C1: in a polled view (Dashboard, CameraHealth) at most one fetch is in
\* flight at any time; a tick or a manual refresh that arrives while a fetch is
\* outstanding issues no second request.
C1_OneFetchInFlight == view \in PolledViews => Cardinality(inflight) <= 1

\* C2: once a view is unmounted, a fetch of it that settles later writes none of
\* the view's state (collection, stats, selection, error flag, loading flag).
C2_NoWriteAfterUnmount == [][life = "unmounted" => UNCHANGED viewState]_vars

\* C3: the results of a view's fetches are written in the order the requests
\* were issued: after the result of a later request, no earlier one is written.
C3_AppliedInIssueOrder == [][lastApplied' >= lastApplied]_vars

C5_FailureDegrades ==
    (last.op = "settle" /\ lastCall.promise.state = "rejected") =>
        /\ collection = MockOf(view)
        /\ collection # <<>>
        /\ error = ErrorOf(view)
        /\ loading = FALSE

C5_Witness ==
    /\ last.op = "settle"
    /\ lastCall.promise.state = "rejected"
    /\ lastCall.outcome.ok = FALSE
    /\ collection = MockOf(view)
    /\ lastApplied > 1

\* C6: whenever LogTable presents its table, 1 <= currentPage <= max(1, totalPages),
\* and an empty collection gives totalPages 0, page 1 and an empty slice.
C6_PageInRange ==
    TableShown =>
        /\ 1 <= currentPage
        /\ currentPage <= Max(1, totalPages)
        /\ (Len(safeLogs) = 0 => totalPages = 0 /\ currentPage = 1 /\ currentLogs = <<>>)

\* the search predicate of the filter engine; on the values of this model a
\* criterion is a substring of a field exactly when it is that field's value
SearchMatches(e, s) == s = "" \/ \E k \in DOMAIN e : e[k] = s

\* the date predicate; every timestamp of this model lies between the two
\* dates the filter bar can hold
InDateRange(e, from, to) == TRUE

\* the exact-match predicates
ExactMatches(e, k, c) == c = "" \/ Get(e, k) = c

\* an entry satisfies all active predicates of the criteria f
Satisfies(e, f) ==
    /\ SearchMatches(e, f.search)
    /\ InDateRange(e, f.dateFrom, f.dateTo)
    /\ ExactMatches(e, "person_id", f.employeeId)
    /\ ExactMatches(e, "camera_id", f.cameraId)
    /\ ExactMatches(e, "access_result", f.status)

MatchCount(s, f) == Cardinality({i \in 1..Len(s) : Satisfies(s[i], f)})

\* C7: the count LogTable paginates over is the number of entries of the
\* collection that satisfy all active filter predicates, and totalPages is that
\* count divided by the page size, rounded up.
C7_CountMatchesFilter ==
    TableShown =>
        /\ Len(safeLogs) = MatchCount(collection, tableFilters)
        /\ totalPages = (MatchCount(collection, tableFilters) + itemsPerPage - 1) \div itemsPerPage

\* C8: changing a filter criterion, or clearing the filters, leaves LogTable on
\* page 1 whatever page was shown before.
C8_FilterChangeResetsPage ==
    last.op \in {"handleFilterChange", "clearFilters"} => currentPage = 1

C8_Witness == last.op = "handleFilterChange" /\ last.page = 3 /\ currentPage = 1

\* C9: the slice LogTable renders has at most itemsPerPage = 10 entries.
C9_SliceAtMostPageSize == view = "AccessLogs" => Len(currentLogs) <= itemsPerPage

C9_Witness ==
    /\ TableShown
    /\ currentPage = 2
    /\ Len(safeLogs) = 25
    /\ Len(currentLogs) = itemsPerPage

\* C10: for a /cameras response that wraps a map keyed by camera id, getCameras
\* yields an array with one entry per key, and each key can be found again as
\* the id of an entry that keeps the fields of the record stored under it.
C10_MapLossless ==
    LET o == lastCall.outcome
        p == lastCall.promise
    IN  (view \in CameraViews /\ o.ok /\ HasProp(o.data, "cameras")
            /\ o.data.props.cameras.kind = "map") =>
          /\ p.state = "fulfilled"
          /\ HasProp(p.value, "cameras")
          /\ IsArray(p.value.props.cameras)
          /\ LET m == o.data.props.cameras
                 out == p.value.props.cameras.vals
             IN  /\ Len(out) = Len(m.keys)
                 /\ \A i \in 1..Len(m.keys) : \E j \in 1..Len(out) :
                       /\ Get(out[j], "id") = m.keys[i]
                       /\ \A k \in DOMAIN m.vals[i] : k \in DOMAIN out[j]

\* C11: for every successful response that carries a body, the value getCameras,
\* getAccessLogs or getEmployees resolves with is an array (read generously: an
\* array, or an object whose cameras property is one).
C11_CollectionIsArray ==
    LET o == lastCall.outcome
        p == lastCall.promise
    IN  (view \in {"CameraHealth", "LiveFeed", "AccessLogs", "Employees"}
            /\ o.ok /\ o.data.kind \notin {"none", "null"}) =>
          /\ p.state = "fulfilled"
          /\ \/ IsArray(p.value)
             \/ HasProp(p.value, "cameras") /\ IsArray(p.value.props.cameras)

\* the camera status enum of the schema
CameraStatuses == {"online", "offline", "error", "unknown"}

\* C12: the status of every camera record the getCameras callback returns is one
\* of online, offline, error, unknown; a raw record without status, or with a
\* status outside the four, gets 'unknown'.
C12_StatusInEnum ==
    (entity = "camera" /\ passes = 1) =>
        /\ rec.status \in CameraStatuses
        /\ Get(raw, "status") \notin CameraStatuses => rec.status = "unknown"

\* the word 'online' in the letter cases a backend of this model sends
OnlineSpellings == {"online", "ONLINE", "Online"}

\* C13: a raw camera record whose status is 'online' in any letter case is
\* returned with status exactly 'online'.
C13_OnlineAnyCase ==
    (entity = "camera" /\ passes = 1 /\ Get(raw, "status") \in OnlineSpellings) =>
        rec.status = "online"

\* C14: applying a field mapping to a record that mapping produced returns the
\* same record.
C14_Idempotent == [][(passes >= 1 /\ passes' = passes + 1) => rec' = rec]_vars

\* a key that is present in r with a value other than null and undefined
Present(r, k) == k \in DOMAIN r /\ r[k] \notin {Null, Undefined}

\* the value of the first key of ks that is present in r
FirstPresent(r, ks) ==
    r[ks[CHOOSE i \in 1..Len(ks) :
            /\ Present(r, ks[i])
            /\ \A j \in 1..(i - 1) : ~Present(r, ks[j])]]

\* the canonical fields that have an ordered list of source keys
SourceKeys(e) ==
    CASE e = "camera" -> {<<"personCount", <<"person_count", "personCount">>>>}
      [] e = "log" -> {<<"log_id", <<"id", "log_id">>>>}
      [] e = "employee" -> {<<"employee_id", <<"id", "employee_id">>>>,
                            <<"face_image", <<"face_snapshot", "face_image">>>>}

\* C15: a canonical field with an ordered list of source keys takes the value
\* of the first source key that is present and non-null, also when that value
\* is 0 or the empty string.
C15_FirstPresentKeyWins ==
    passes = 1 =>
        \A fk \in SourceKeys(entity) :
            (\E i \in 1..Len(fk[2]) : Present(raw, fk[2][i])) =>
                rec[fk[1]] = FirstPresent(raw, fk[2])

\* the fields each callback writes into its result
CanonicalFields(e) ==
    CASE e = "camera" -> {"personCount", "lastFrame", "status", "fps", "name", "location"}
      [] e = "log" -> {"log_id", "access_result", "confidence_score", "timestamp",
                       "camera_id", "person_id", "access_type"}
      [] e = "employee" -> {"employee_id", "name", "email", "department", "position",
                            "face_image", "registered_date", "status"}

\* C16: no canonical field of a mapped record is undefined or absent.
C16_NoUndefinedField ==
    passes = 1 =>
        \A k \in CanonicalFields(entity) : k \in DOMAIN rec /\ rec[k] # Undefined

\* the two enums of an access-log entry
AccessResults == {"granted", "denied", "tailgating", "unknown"}

AccessTypes == {"card_swipe", "face_recognition", "body_recognition", "unknown"}

\* C17: every access-log entry the getAccessLogs callback returns has
\* access_result in {granted, denied, tailgating, unknown} and access_type in
\* {card_swipe, face_recognition, body_recognition, unknown}.
C17_LogEnums ==
    (entity = "log" /\ passes = 1) =>
        /\ rec.access_result \in AccessResults
        /\ rec.access_type \in AccessTypes

\* the raw record r with its access_type set to t, or left out
WithAccessType(r, t) ==
    IF t = Absent THEN [k \in DOMAIN r \ {"access_type"} |-> r[k]]
    ELSE [k \in DOMAIN r \cup {"access_type"} |-> IF k = "access_type" THEN t ELSE r[k]]

\* C18: two raw log records that differ only in access_type are mapped to
\* entries with the same access_result.
C18_ResultIgnoresAccessType ==
    (entity = "log" /\ passes = 1) =>
        \A t \in {Absent, "card_swipe", "face_recognition"} :
            normalizeLog(WithAccessType(raw, t)).access_result = rec.access_result

\* the fields the schema requires of a record of view v's collection
RequiredFields(v) ==
    CASE v \in CameraViews -> {"id", "name", "location", "status", "fps", "personCount",
                               "lastFrame"}
      [] v = "AccessLogs" -> {"log_id", "timestamp", "camera_id", "person_id", "access_type",
                              "access_result", "confidence_score"}
      [] v = "Employees" -> {"id", "name", "email", "department", "face_image",
                             "registered_date", "status"}

\* the enum values of a record of view v's collection are valid
ValidEnums(v, r) ==
    CASE v \in CameraViews -> Get(r, "status") \in CameraStatuses
      [] v = "AccessLogs" -> /\ Get(r, "access_result") \in AccessResults
                             /\ Get(r, "access_type") \in AccessTypes
      [] v = "Employees" -> Get(r, "status") \in {"active", "inactive"}

\* C19: every record of the mock dataset a view installs on failure has all the
\* fields the schema requires of its kind, with valid enum values.
C19_MockSatisfiesSchema ==
    (last.op = "settle" /\ lastCall.promise.state = "rejected") =>
        \A i \in 1..Len(collection) :
            /\ RequiredFields(view) \subseteq DOMAIN collection[i]
            /\ ValidEnums(view, collection[i])

\* C20: once Dashboard, CameraHealth or LiveFeed is unmounted, its interval is
\* cleared, and no step after that is a tick, starts a fetch or changes the
\* simulated log list.
C20_StoppedIsTerminal ==
    [][(life = "unmounted" /\ view \in CameraViews) =>
          /\ ~timer /\ ~logTimer
          /\ last'.op \notin {"tick", "logTick"}
          /\ issued' = issued
          /\ logs' = logs]_vars

C20_Witness ==
    /\ life = "unmounted"
    /\ \/ view \in PolledViews /\ phase = IntervalUnits /\ issued >= 2
       \/ view = "LiveFeed" /\ Len(logs) > Len(mockLiveLogs)
    /\ last.op # "unmount"

\* C21: the slice LogTable renders is a run of consecutive entries of the
\* collection in the collection's order, and getAccessLogs returns the entries
\* in the order of the response array.
C21_OrderPreserved ==
    LET o == lastCall.outcome
        p == lastCall.promise
    IN  /\ TableShown =>
              \A i \in 1..Len(currentLogs) :
                  /\ startIndex + i <= Len(collection)
                  /\ currentLogs[i] = collection[startIndex + i]
        /\ (view = "AccessLogs" /\ o.ok /\ IsArray(o.data)) =>
              p.state = "fulfilled" /\ p.value.vals = o.data.vals
        /\ (view = "AccessLogs" /\ o.ok /\ HasProp(o.data, "logs")
                /\ IsArray(o.data.props.logs)) =>
              /\ p.state = "fulfilled"
              /\ Len(p.value.vals) = Len(o.data.props.logs.vals)
              /\ \A i \in 1..Len(p.value.vals) :
                    \A k \in DOMAIN o.data.props.logs.vals[i] \cap {"id", "camera_id", "person_id"} :
                        p.value.vals[i][k] = o.data.props.logs.vals[i][k]

C21_Witness ==
    /\ TableShown
    /\ currentPage = 2
    /\ Len(currentLogs) = 2
    /\ currentLogs[1] # currentLogs[2]

\* C22: in Dashboard and CameraHealth a request is issued only by the mount, by
\* an interval tick or by a manual refresh, one request each; the completion of
\* a fetch, failed or not, issues none.
C22_NoRetries ==
    [][(view \in PolledViews /\ issued' # issued) =>
          /\ issued' = issued + 1
          /\ Cardinality(inflight') = Cardinality(inflight) + 1
          /\ last'.op \in {"mount", "tick", "refresh"}]_vars

C22_Witness ==
    /\ view \in PolledViews
    /\ last.op = "settle"
    /\ lastCall.promise.state = "rejected"
    /\ error = ErrorOf(view)
    /\ inflight = {}
    /\ issued = 2

\* C23: the CSV export is the header row followed by one row per entry of the
\* page LogTable shows, in the page's order, with confidence 'N/A' only for an
\* entry without confidence score.
C23_ExportIsVisibleSlice ==
    (last.op = "handleExport" /\ TableShown) =>
        /\ download[1] = headers
        /\ Len(download) = 1 + Len(currentLogs)
        /\ \A i \in 1..Len(currentLogs) :
              /\ download[i + 1][2] = Get(currentLogs[i], "camera_id")
              /\ download[i + 1][3] = Get(currentLogs[i], "person_id")
              /\ download[i + 1][5] = Get(currentLogs[i], "access_result")
              /\ download[i + 1][6] = "N/A" <=> ~Present(currentLogs[i], "confidence_score")

\* C24: for the same list of raw records each gateway function returns the same
\* collection whether the list arrives bare or wrapped in {logs: ...},
\* {employees: ...}, {cameras: ...}.
C24_EnvelopeIndependent ==
    LET o == lastCall.outcome
        p == lastCall.promise
    IN  /\ (view = "AccessLogs" /\ o.ok /\ HasProp(o.data, "logs")
                /\ IsArray(o.data.props.logs)) =>
              p = getAccessLogs(Ok(o.data.props.logs))
        /\ (view = "Employees" /\ o.ok /\ HasProp(o.data, "employees")
                /\ IsArray(o.data.props.employees)) =>
              p = getEmployees(Ok(o.data.props.employees))
        /\ (view \in CameraViews /\ o.ok /\ HasProp(o.data, "cameras")
                /\ IsArray(o.data.props.cameras)) =>
              /\ p.state = "fulfilled"
              /\ cameraList(p.value) = cameraList(getCameras(Ok(o.data.props.cameras)).value)

\* C25: every camera of the array getCameras produces has a defined id, a
\* non-empty name and a non-empty location, also when the records come from a
\* map keyed by id.
C25_CamerasIdentified ==
    LET o == lastCall.outcome
        p == lastCall.promise
    IN  (view \in CameraViews /\ o.ok /\ HasProp(o.data, "cameras")
            /\ o.data.props.cameras.kind \in {"map", "array"}) =>
          /\ p.state = "fulfilled"
          /\ \A i \in 1..Len(cameraList(p.value)) :
                /\ Present(cameraList(p.value)[i], "id")
                /\ Get(cameraList(p.value)[i], "name") \notin {Undefined, Null, ""}
                /\ Get(cameraList(p.value)[i], "location") \notin {Undefined, Null, ""}

\* C26: in LiveFeed, when getCameras resolved with a camera envelope, the view
\* ends with the fetched cameras, a camera selected among them and no error; the
\* mock cameras are installed only when the request failed.
C26_LiveFeedAppliesEnvelope ==
    LET o == lastCall.outcome
        p == lastCall.promise
    IN  (view = "LiveFeed" /\ last.op = "settle") =>
          /\ (p.state = "fulfilled" /\ HasProp(p.value, "cameras")
                  /\ IsArray(p.value.props.cameras)) =>
                /\ collection = p.value.props.cameras.vals
                /\ selectedCamera = findCamera(p.value.props.cameras.vals)
                /\ error = Null
          /\ collection = mockCameras => p.state = "rejected"

\* C27: in Dashboard, CameraHealth, AccessLogs and Employees the loading flag is
\* true whenever a fetch of the view is in flight.
C27_LoadingWhileInFlight ==
    (view \in {"Dashboard", "CameraHealth", "AccessLogs", "Employees"} /\ inflight # {}) =>
        loading

\* C28: when a poll of Dashboard completes, systemStats and cameras are both the
\* mock values (one of its two requests failed), or they are the two results of
\* that poll (both succeeded); never one of each.
C28_NoMixing ==
    [][(view = "Dashboard" /\ lastApplied' # lastApplied) =>
          \/ /\ lastCall'.promise.state = "rejected"
             /\ systemStats' = mockStats
             /\ collection' = mockDashboardCameras
             /\ error' = ErrorOf(view)
          \/ \E f \in inflight :
                /\ f.id = lastApplied'
                /\ lastCall'.promise.state = "fulfilled"
                /\ error' = Null
                /\ systemStats' =
                      (IF f.statsData = Pending THEN lastCall'.promise ELSE f.statsData).value
                /\ collection' = cameraList(
                      (IF f.camerasData = Pending THEN lastCall'.promise ELSE f.camerasData).value)]_vars

C28_Witness ==
    /\ view = "Dashboard"
    /\ systemStats = mockStats
    /\ collection = mockDashboardCameras
    /\ \E f \in inflight :
          /\ f.statsData.state = "fulfilled"
          /\ f.camerasData = Pending
          /\ f.id = lastApplied + 1

\* C29: the LiveFeed log list has min(3 + ticks, 10) entries, the entries of the
\* simulator come first, newest to oldest, and the initial entries follow in
\* their initial order.
C29_LogListBounded ==
    (view = "LiveFeed" /\ life # "created") =>
        LET ticks == IF logs[1].id > Len(mockLiveLogs) THEN logs[1].id - Len(mockLiveLogs) ELSE 0
        IN  /\ Len(logs) <= 10
            /\ Len(logs) = Min(Len(mockLiveLogs) + ticks, 10)
            /\ \A i \in 1..Len(logs) : \A j \in (i + 1)..Len(logs) :
                  IF logs[i].id > Len(mockLiveLogs)
                  THEN logs[j].id > Len(mockLiveLogs) => logs[i].id > logs[j].id
                  ELSE logs[j].id <= Len(mockLiveLogs) /\ logs[i].id < logs[j].id

C29_Witness ==
    /\ view = "LiveFeed"
    /\ Len(logs) = 10
    /\ logs[1].id = 11
    /\ logs[10].id = 2

====
